---- MODULE Spec2Model ----
(***************************************************************************)
(* Model of the TravelData itinerary store (src/data_class.py).            *)
(*                                                                         *)
(* self.data is an OrderedDict: it is modelled as a sequence of            *)
(* [key, value] items in iteration order.  A value is the tuple the code   *)
(* stores, <<country, lat, lon, days, transport>>, kept as a TLA+ sequence *)
(* so that tuple unpacking (which checks the tuple's length) is modelled.  *)
(* The snapshot file is the variable disk, the geocoder and the file       *)
(* system are the environment: their outcomes are chosen with \E.          *)
(***************************************************************************)
EXTENDS Integers, Sequences, FiniteSets, TLC

VARIABLES data, disk, lastOp

vars == <<data, disk, lastOp>>

(***************************************************************************)
(* Bounds of the model.                                                    *)
(***************************************************************************)
NumNames == 3
MaxDays == 1

NameOf == <<"A", "B", "C", "D">>
Names == {NameOf[i] : i \in 1..NumNames}
Countries == {"X", "Y"}
Transports == {"Unknown", "Bus"}
Days == 1..MaxDays
Coords == {<<0, 1>>}
None == "None"

(***************************************************************************)
(* OrderedDict primitives.                                                 *)
(***************************************************************************)
Item(k, v) == [key |-> k, value |-> v]

Has(d, k) == \E i \in 1..Len(d) : d[i].key = k

IndexOf(d, k) == CHOOSE i \in 1..Len(d) : d[i].key = k

Get(d, k) == d[IndexOf(d, k)].value

\* d[k] = v appended as a new item even when k is already a key
SetItemAlwaysAppend(d, k, v) == Append(d, Item(k, v))

\* d[k] = v : an existing key keeps its place and takes the new value,
\* a new key goes to the end
SetItem(d, k, v) ==
    IF Has(d, k)
    THEN [d EXCEPT ![IndexOf(d, k)] = Item(k, v)]
    ELSE Append(d, Item(k, v))

\* del d[k] removing the last item instead of the item of key k
DelItemLast(d, k) == SubSeq(d, 1, Len(d) - 1)

\* del d[k] / d.pop(k), for a key that is present
DelItem(d, k) ==
    LET i == IndexOf(d, k)
    IN  SubSeq(d, 1, i - 1) \o SubSeq(d, i + 1, Len(d))

\* u.update(d) : d's items are assigned into u in d's order
RECURSIVE Update(_, _)
Update(u, d) ==
    IF d = <<>> THEN u
    ELSE Update(SetItem(u, Head(d).key, Head(d).value), Tail(d))

(***************************************************************************)
(* The environment: the geocoder and the file system.                      *)
(***************************************************************************)
\* the value standing for Python's None in a (lat, lon) pair
NoneNum == 999

\* what self.geolocator.geocode(...) can do: return a Location, return None,
\* or raise GeocoderTimedOut
GeoResults ==
    {[kind |-> "found", coord |-> c] : c \in Coords}
        \cup {[kind |-> k, coord |-> <<NoneNum, NoneNum>>] : k \in {"none", "timeout"}}

\* get_lat_lon answering a failed lookup with the coordinates (0, 0)
get_lat_lon_ZeroOnFailure(g) ==
    IF g.kind = "found" THEN g.coord ELSE <<0, 0>>

\* get_lat_lon: both failures are caught and returned as (None, None)
get_lat_lon(g) ==
    IF g.kind = "found" THEN g.coord ELSE <<NoneNum, NoneNum>>

\* what the write in save_data can do: succeed, fail in open() before the
\* file is touched, or fail in pickle.dump() after open() truncated the file
SaveResults == {"saved", "open_failed", "dump_failed"}

Missing == [state |-> "missing", content |-> <<>>]
Corrupt == [state |-> "corrupt", content |-> <<>>]

\* pickle.dump of the OrderedDict: the file holds its (key, value) pairs in
\* iteration order
pickle_dump(d) == [i \in 1..Len(d) |-> <<d[i].key, d[i].value>>]

\* unpickling that puts each pair read in front of the ones read before
RECURSIVE pickle_load_Prepending(_)
pickle_load_Prepending(pairs) ==
    IF pairs = <<>> THEN <<>>
    ELSE <<Item(pairs[Len(pairs)][1], pairs[Len(pairs)][2])>>
             \o pickle_load_Prepending(SubSeq(pairs, 1, Len(pairs) - 1))

\* pickle.load: a new OrderedDict is built by assigning the pairs in the
\* order they were written
RECURSIVE pickle_load(_)
pickle_load(pairs) ==
    IF pairs = <<>> THEN <<>>
    ELSE SetItem(pickle_load(SubSeq(pairs, 1, Len(pairs) - 1)),
                 pairs[Len(pairs)][1], pairs[Len(pairs)][2])

Snapshot(d) == [state |-> "valid", content |-> pickle_dump(d)]

\* save_data that reports success without writing the file
save_data_NoWrite(d, s) == disk' = disk

\* save_data: every exception is caught and printed; the caller continues
save_data(d, s) ==
    disk' = CASE s = "saved" -> Snapshot(d)
              [] s = "open_failed" -> disk
              [] OTHER -> Corrupt

\* a file system on which every write succeeds
SaveChoices == {"saved"}

\* the (position, after_place) arguments: after_place is given with "after"
Placements ==
    {<<"start", None>>, <<"end", None>>}
        \cup {<<"after", a>> : a \in Names \cup {None}}

\* an operation that does not call save_data
NoSave == UNCHANGED disk

\* the record of the last operation: its name, its arguments (name, position,
\* after_place, the new value), whether name was a key when it was called,
\* how it ended, what save_data did in it and what it returned or wrote
Op(op, name, pos, after, new, outcome, save, out) ==
    [op |-> op, name |-> name, had |-> Has(data, name), pos |-> pos,
     after |-> after, new |-> new, outcome |-> outcome, save |-> save,
     out |-> out]

Exceptions == {"ValueError", "OSError"}

(***************************************************************************)
(* add_location                                                            *)
(***************************************************************************)
\* the copy loop leaving out the old item of the name once the new entry
\* has been placed
RECURSIVE CopyPlacingAfter_DropsOld(_, _, _, _, _)
CopyPlacingAfter_DropsOld(updated_data, items, name, entry, after_place) ==
    IF items = <<>> THEN updated_data
    ELSE LET key == Head(items).key
             value == Head(items).value
             copied == IF key = name /\ Has(updated_data, name)
                       THEN updated_data
                       ELSE SetItem(updated_data, key, value)
             placed == IF key = after_place
                       THEN SetItem(copied, name, entry)
                       ELSE copied
         IN  CopyPlacingAfter_DropsOld(placed, Tail(items), name, entry,
                                       after_place)

\* the loop of the "after" branch: copy the items in order, and assign
\* name right after the item whose key is after_place has been copied
RECURSIVE CopyPlacingAfter(_, _, _, _, _)
CopyPlacingAfter(updated_data, items, name, entry, after_place) ==
    IF items = <<>> THEN updated_data
    ELSE LET key == Head(items).key
             value == Head(items).value
             copied == SetItem(updated_data, key, value)
             placed == IF key = after_place
                       THEN SetItem(copied, name, entry)
                       ELSE copied
         IN  CopyPlacingAfter(placed, Tail(items), name, entry, after_place)

\* placement in a plain list: the new item is inserted whether or not its
\* name is already a key
AddPlacedAsNew(d, name, new_entry, position, after_place) ==
    IF position = "start"
    THEN <<Item(name, new_entry)>> \o d
    ELSE IF position = "after" /\ Has(d, after_place)
    THEN LET i == IndexOf(d, after_place)
         IN  SubSeq(d, 1, i) \o <<Item(name, new_entry)>> \o SubSeq(d, i + 1, Len(d))
    ELSE Append(d, Item(name, new_entry))

\* the "after" branch taken without the test that after_place is a key
AddPlacedNoFallback(d, name, new_entry, position, after_place) ==
    IF position = "start"
    THEN Update(SetItem(<<>>, name, new_entry), d)
    ELSE IF position = "after"
    THEN CopyPlacingAfter(<<>>, d, name, new_entry, after_place)
    ELSE SetItem(d, name, new_entry)

\* the "after" branch falling through to the final else even when
\* after_place is a key
AddPlacedAlwaysAtEnd(d, name, new_entry, position, after_place) ==
    IF position = "start"
    THEN Update(SetItem(<<>>, name, new_entry), d)
    ELSE SetItem(d, name, new_entry)

\* the three placement branches of add_location
AddPlaced(d, name, new_entry, position, after_place) ==
    IF position = "start"
    THEN Update(SetItem(<<>>, name, new_entry), d)
    ELSE IF position = "after" /\ Has(d, after_place)
    THEN CopyPlacingAfter(<<>>, d, name, new_entry, after_place)
    ELSE SetItem(d, name, new_entry)

add_location(name, country, days, transport, position, after_place, g, s) ==
    LET lat == get_lat_lon(g)[1]
        lon == get_lat_lon(g)[2]
        new_entry == <<country, lat, lon, days, transport>>
    IN  IF lat = NoneNum \/ lon = NoneNum
        THEN /\ data' = data
             /\ NoSave
             /\ lastOp' = Op("add_location", name, position, after_place,
                             <<>>, "skipped", "none", g.kind)
        ELSE /\ data' = AddPlaced(data, name, new_entry, position, after_place)
             /\ save_data(data', s)
             /\ lastOp' = Op("add_location", name, position, after_place,
                             new_entry, "added", s, g.kind)

AddLocation ==
    \E name \in Names, country \in Countries, days \in Days,
       transport \in Transports, p \in Placements,
       g \in GeoResults, s \in SaveChoices :
        add_location(name, country, days, transport, p[1], p[2], g, s)

(***************************************************************************)
(* remove_location                                                         *)
(***************************************************************************)
\* remove_location putting the item back when the write fails
remove_location_RollsBack(name, s) ==
    /\ IF Has(data, name)
       THEN /\ data' = IF s = "saved" THEN DelItem(data, name) ELSE data
            /\ save_data(data', s)
            /\ lastOp' = Op("remove_location", name, None, None, <<>>,
                            "removed", s, <<>>)
       ELSE /\ data' = data
            /\ NoSave
            /\ lastOp' = Op("remove_location", name, None, None, <<>>,
                            "not_found", "none", <<>>)

remove_location(name, s) ==
    /\ IF Has(data, name)
       THEN /\ data' = DelItem(data, name)
            /\ save_data(data', s)
            /\ lastOp' = Op("remove_location", name, None, None, <<>>,
                            "removed", s, <<>>)
       ELSE /\ data' = data
            /\ NoSave
            /\ lastOp' = Op("remove_location", name, None, None, <<>>,
                            "not_found", "none", <<>>)

RemoveLocation ==
    \E name \in Names, s \in SaveChoices : remove_location(name, s)

(***************************************************************************)
(* move_location                                                           *)
(***************************************************************************)
\* move_location's placement without the pop: the item is placed again
\* while the old one is still in the dictionary
MovePlacedNoPop(d, name, new_position, after_place) ==
    AddPlaced(d, name, Get(d, name), new_position, after_place)

\* pop the item, then place it by the three branches
MovePlaced(d, name, new_position, after_place) ==
    LET location_details == Get(d, name)
        popped == DelItem(d, name)
    IN  IF new_position = "start"
        THEN Update(SetItem(<<>>, name, location_details), popped)
        ELSE IF new_position = "after" /\ Has(popped, after_place)
        THEN CopyPlacingAfter(<<>>, popped, name, location_details, after_place)
        ELSE SetItem(popped, name, location_details)

move_location(name, new_position, after_place, s) ==
    /\ IF ~Has(data, name)
       THEN /\ data' = data
            /\ NoSave
            /\ lastOp' = Op("move_location", name, new_position, after_place,
                            <<>>, "not_found", "none", <<>>)
       ELSE /\ data' = MovePlaced(data, name, new_position, after_place)
            /\ save_data(data', s)
            /\ lastOp' = Op("move_location", name, new_position, after_place,
                            <<>>, "moved", s, <<>>)

MoveLocation ==
    \E name \in Names, p \in Placements, s \in SaveChoices :
        move_location(name, p[1], p[2], s)

(***************************************************************************)
(* clear_data                                                              *)
(***************************************************************************)
clear_data(s) ==
    /\ data' = <<>>
    /\ save_data(data', s)
    /\ lastOp' = Op("clear_data", None, None, None, <<>>, "cleared", s, <<>>)

ClearData == \E s \in SaveChoices : clear_data(s)

(***************************************************************************)
(* change_days, change_transport, change_country                           *)
(* The value is unpacked into a fixed number of targets: a tuple of any    *)
(* other length raises ValueError before anything is assigned.             *)
(***************************************************************************)
change_days(name, new_days, s) ==
    /\ IF ~Has(data, name)
       THEN /\ data' = data
            /\ NoSave
            /\ lastOp' = Op("change_days", name, None, None, <<new_days>>,
                            "not_found", "none", <<>>)
       ELSE LET v == Get(data, name)
            IN  IF Len(v) # 4
                THEN /\ data' = data
                     /\ NoSave
                     /\ lastOp' = Op("change_days", name, None, None, <<new_days>>,
                                     "ValueError", "none", <<>>)
                ELSE /\ data' = SetItem(data, name, <<v[1], v[2], v[3], new_days>>)
                     /\ save_data(data', s)
                     /\ lastOp' = Op("change_days", name, None, None, <<new_days>>,
                                     "updated", s, <<>>)

ChangeDays ==
    \E name \in Names, new_days \in Days, s \in SaveChoices :
        change_days(name, new_days, s)

TransportUpdated(v, new_transport) ==
    <<v[1], v[2], v[3], v[4], new_transport>>

change_transport(name, new_transport, s) ==
    /\ IF ~Has(data, name)
       THEN /\ data' = data
            /\ NoSave
            /\ lastOp' = Op("change_transport", name, None, None, <<new_transport>>,
                            "not_found", "none", <<>>)
       ELSE LET v == Get(data, name)
            IN  IF Len(v) # 5
                THEN /\ data' = data
                     /\ NoSave
                     /\ lastOp' = Op("change_transport", name, None, None,
                                     <<new_transport>>, "ValueError", "none", <<>>)
                ELSE /\ data' = SetItem(data, name, TransportUpdated(v, new_transport))
                     /\ save_data(data', s)
                     /\ lastOp' = Op("change_transport", name, None, None,
                                     <<new_transport>>, "updated", s, <<>>)

ChangeTransport ==
    \E name \in Names, new_transport \in Transports, s \in SaveChoices :
        change_transport(name, new_transport, s)

CountryUpdated(v, new_country) ==
    <<new_country, v[2], v[3], v[4], v[5]>>

change_country(name, new_country, s) ==
    /\ IF ~Has(data, name)
       THEN /\ data' = data
            /\ NoSave
            /\ lastOp' = Op("change_country", name, None, None, <<new_country>>,
                            "not_found", "none", <<>>)
       ELSE LET v == Get(data, name)
            IN  IF Len(v) # 5
                THEN /\ data' = data
                     /\ NoSave
                     /\ lastOp' = Op("change_country", name, None, None,
                                     <<new_country>>, "ValueError", "none", <<>>)
                ELSE /\ data' = SetItem(data, name, CountryUpdated(v, new_country))
                     /\ save_data(data', s)
                     /\ lastOp' = Op("change_country", name, None, None,
                                     <<new_country>>, "updated", s, <<>>)

ChangeCountry ==
    \E name \in Names, new_country \in Countries, s \in SaveChoices :
        change_country(name, new_country, s)

(***************************************************************************)
(* change_location_name                                                    *)
(***************************************************************************)
\* a rename that leaves the values of an entry already called new_name
RenamedKeepsTarget(d, old_name, new_name) ==
    SetItem(DelItem(d, old_name), new_name,
            IF Has(d, new_name) THEN Get(d, new_name) ELSE Get(d, old_name))

\* self.data[new_name] = self.data.pop(old_name): the right-hand side is
\* evaluated first, so the item is popped and then assigned
Renamed(d, old_name, new_name) ==
    SetItem(DelItem(d, old_name), new_name, Get(d, old_name))

change_location_name(old_name, new_name, s) ==
    /\ IF Has(data, old_name)
       THEN /\ data' = Renamed(data, old_name, new_name)
            /\ save_data(data', s)
            /\ lastOp' = Op("change_location_name", old_name, None, None,
                            <<new_name>>, "renamed", s, <<>>)
       ELSE /\ data' = data
            /\ NoSave
            /\ lastOp' = Op("change_location_name", old_name, None, None,
                            <<new_name>>, "not_found", "none", <<>>)

ChangeLocationName ==
    \E old_name \in Names, new_name \in Names, s \in SaveChoices :
        change_location_name(old_name, new_name, s)

(***************************************************************************)
(* export_to_csv                                                           *)
(***************************************************************************)
CsvHeader == <<"Location", "Country", "Latitude", "Longitude", "Days", "Transport">>

\* the rows written without the writerow of the header
CsvRows_NoHeader(d) == [i \in 1..Len(d) |-> <<d[i].key>> \o d[i].value]

CsvRows(d) == <<CsvHeader>> \o [i \in 1..Len(d) |-> <<d[i].key>> \o d[i].value]

\* open() is not inside a try: when it fails the OSError reaches the caller
export_to_csv(opened) ==
    /\ data' = data
    /\ NoSave
    /\ lastOp' = IF opened
                 THEN Op("export_to_csv", None, None, None, <<>>,
                         "exported", "none", CsvRows(data))
                 ELSE Op("export_to_csv", None, None, None, <<>>,
                         "OSError", "none", <<>>)

ExportToCsv == \E opened \in BOOLEAN : export_to_csv(opened)

(***************************************************************************)
(* total_days, days_per_country, calculate_total_distance                  *)
(***************************************************************************)
\* total_days summing the slot before the days (details[2], the longitude)
RECURSIVE total_days_WrongSlot(_)
total_days_WrongSlot(d) ==
    IF d = <<>> THEN 0 ELSE Head(d).value[3] + total_days_WrongSlot(Tail(d))

\* sum(details[3] for details in self.data.values())
RECURSIVE total_days(_)
total_days(d) ==
    IF d = <<>> THEN 0 ELSE Head(d).value[4] + total_days(Tail(d))

TotalDays ==
    /\ data' = data
    /\ NoSave
    /\ lastOp' = Op("total_days", None, None, None, <<>>, "returned", "none",
                    total_days(data))

\* country_days[country] += days on a defaultdict(int): a country met for
\* the first time is added at the end with 0 + days
RECURSIVE country_days(_)
country_days(d) ==
    IF d = <<>> THEN <<>>
    ELSE LET sofar == country_days(SubSeq(d, 1, Len(d) - 1))
             details == d[Len(d)].value
             country == details[1]
             days == details[4]
         IN  SetItem(sofar, country,
                     (IF Has(sofar, country) THEN Get(sofar, country) ELSE 0) + days)

\* the number of items of the sorted list that x goes behind: those whose
\* key -days is not greater than x's
Behind(sorted, x) == Cardinality({i \in 1..Len(sorted) : sorted[i].value >= x.value})

\* sorted(...) with the key x[1] instead of -x[1]: smallest total first
RECURSIVE sorted_by_days_Ascending(_)
sorted_by_days_Ascending(items) ==
    IF items = <<>> THEN <<>>
    ELSE LET sorted == sorted_by_days_Ascending(SubSeq(items, 1, Len(items) - 1))
             x == items[Len(items)]
             n == Cardinality({i \in 1..Len(sorted) : sorted[i].value <= x.value})
         IN  SubSeq(sorted, 1, n) \o <<x>> \o SubSeq(sorted, n + 1, Len(sorted))

\* sorted(country_days.items(), key=lambda x: -x[1]): a stable sort, an
\* item goes behind the items before it that have the same total
RECURSIVE sorted_by_days(_)
sorted_by_days(items) ==
    IF items = <<>> THEN <<>>
    ELSE LET sorted == sorted_by_days(SubSeq(items, 1, Len(items) - 1))
             x == items[Len(items)]
             n == Behind(sorted, x)
         IN  SubSeq(sorted, 1, n) \o <<x>> \o SubSeq(sorted, n + 1, Len(sorted))

\* days_per_country prints the sorted items and returns country_days itself
DaysPerCountry ==
    /\ data' = data
    /\ NoSave
    /\ lastOp' = Op("days_per_country", None, None, None, <<>>, "returned", "none",
                    [printed |-> sorted_by_days(country_days(data)),
                     returned |-> country_days(data)])

Abs(x) == IF x < 0 THEN -x ELSE x

\* geodesic(loc1, loc2).km of the geopy library, on whole degrees near the
\* origin: 111 km for each degree of latitude and of longitude
geodesic_km(loc1, loc2) ==
    111 * (Abs(loc1[1] - loc2[1]) + Abs(loc1[2] - loc2[2]))

\* the loop with range(len(locations) - 2): the last leg is left out
RECURSIVE DistanceLoop_SkipsLastLeg(_, _)
DistanceLoop_SkipsLastLeg(d, i) ==
    IF i >= Len(d) - 1 THEN 0
    ELSE geodesic_km(<<d[i].value[2], d[i].value[3]>>,
                     <<d[i + 1].value[2], d[i + 1].value[3]>>)
             + DistanceLoop_SkipsLastLeg(d, i + 1)

\* for i in range(len(locations) - 1): total_distance += geodesic(...).km
RECURSIVE DistanceLoop(_, _)
DistanceLoop(d, i) ==
    IF i >= Len(d) THEN 0
    ELSE geodesic_km(<<d[i].value[2], d[i].value[3]>>,
                     <<d[i + 1].value[2], d[i + 1].value[3]>>)
             + DistanceLoop(d, i + 1)

calculate_total_distance(d) ==
    IF Len(d) < 2 THEN 0 ELSE DistanceLoop(d, 1)

CalculateTotalDistance ==
    /\ data' = data
    /\ NoSave
    /\ lastOp' = Op("calculate_total_distance", None, None, None, <<>>,
                    IF Len(data) < 2 THEN "not_enough" ELSE "returned", "none",
                    calculate_total_distance(data))

(***************************************************************************)
(* save_data called by the user                                            *)
(***************************************************************************)
SaveData ==
    \E s \in SaveChoices :
        /\ data' = data
        /\ save_data(data, s)
        /\ lastOp' = Op("save_data", None, None, None, <<>>, "returned", s, <<>>)

(***************************************************************************)
(* __init__ and load_data: a store constructed on the snapshot path        *)
(***************************************************************************)
\* load_data with the test of os.path.exists inverted
load_data_Inverted(snapshot) ==
    IF snapshot.state = "missing" THEN pickle_load(snapshot.content) ELSE <<>>

\* load_data: the file is read when it exists; when pickle.load raises the
\* store is the empty OrderedDict, as it is when there is no file
load_data(snapshot) ==
    IF snapshot.state = "valid" THEN pickle_load(snapshot.content) ELSE <<>>

Construct ==
    /\ data' = load_data(disk)
    /\ NoSave
    /\ lastOp' = Op("__init__", None, None, None, <<>>,
                    CASE disk.state = "valid" -> "loaded"
                      [] disk.state = "corrupt" -> "load_error"
                      [] OTHER -> "fresh",
                    "none", <<>>)

(***************************************************************************)
(* The specification                                                       *)
(***************************************************************************)
Init ==
    /\ disk \in {Missing, Corrupt}
    /\ data = load_data(disk)
    /\ lastOp = [op |-> "__init__", name |-> None, had |-> FALSE, pos |-> None,
                 after |-> None, new |-> <<>>,
                 outcome |-> IF disk.state = "corrupt" THEN "load_error" ELSE "fresh",
                 save |-> "none", out |-> <<>>]

Next ==
    \/ AddLocation
    \/ RemoveLocation
    \/ MoveLocation
    \/ ClearData
    \/ ChangeDays
    \/ ChangeTransport
    \/ ChangeCountry
    \/ ChangeLocationName
    \/ ExportToCsv
    \/ TotalDays
    \/ DaysPerCountry
    \/ CalculateTotalDistance
    \/ SaveData
    \/ Construct

Spec == Init /\ [][Next]_vars

(***************************************************************************)
(* The store on a file system whose writes can fail.  The operations are   *)
(* the same; they are called with two names, and every save_data can       *)
(* succeed, fail in open() or fail in pickle.dump().                       *)
(***************************************************************************)
NumNamesF == 2

NamesF == {NameOf[i] : i \in 1..NumNamesF}

PlacementsF ==
    {<<"start", None>>, <<"end", None>>}
        \cup {<<"after", a>> : a \in NamesF \cup {None}}

AddLocationF ==
    \E name \in NamesF, days \in Days, p \in PlacementsF,
       g \in GeoResults, s \in SaveResults :
        add_location(name, "X", days, "Unknown", p[1], p[2], g, s)

RemoveLocationF ==
    \E name \in NamesF, s \in SaveResults : remove_location(name, s)

MoveLocationF ==
    \E name \in NamesF, p \in PlacementsF, s \in SaveResults :
        move_location(name, p[1], p[2], s)

ClearDataF == \E s \in SaveResults : clear_data(s)

ChangeDaysF ==
    \E name \in NamesF, new_days \in Days, s \in SaveResults :
        change_days(name, new_days, s)

ChangeTransportF ==
    \E name \in NamesF, s \in SaveResults : change_transport(name, "Bus", s)

ChangeCountryF ==
    \E name \in NamesF, s \in SaveResults : change_country(name, "Y", s)

ChangeLocationNameF ==
    \E old_name \in NamesF, new_name \in NamesF, s \in SaveResults :
        change_location_name(old_name, new_name, s)

NextFaults ==
    \/ AddLocationF
    \/ RemoveLocationF
    \/ MoveLocationF
    \/ ClearDataF
    \/ ChangeDaysF
    \/ ChangeTransportF
    \/ ChangeCountryF
    \/ ChangeLocationNameF
    \/ Construct

SpecFaults == Init /\ [][NextFaults]_vars

(***************************************************************************)
(* The queries, applied to every store of up to NumNames waypoints with    *)
(* days in 1..MaxDaysA and coordinates in CoordsA, as loaded from its      *)
(* snapshot; move_location reorders it.                                    *)
(***************************************************************************)
MaxDaysA == 3

CoordsA == {<<0, 0>>, <<0, 1>>}

ValuesA ==
    {<<country, c[1], c[2], days, "Unknown">> :
        country \in Countries, c \in CoordsA, days \in 1..MaxDaysA}

RECURSIVE StoresOver(_)
StoresOver(names) ==
    {<<>>} \cup UNION {{<<Item(n, v)>> \o rest : v \in ValuesA,
                                           rest \in StoresOver(names \ {n})} :
                        n \in names}

InitAnalytics ==
    /\ data \in StoresOver(Names)
    /\ disk = Snapshot(data)
    /\ lastOp = [op |-> "__init__", name |-> None, had |-> FALSE, pos |-> None,
                 after |-> None, new |-> <<>>, outcome |-> "loaded",
                 save |-> "none", out |-> <<>>]

NextAnalytics ==
    \/ TotalDays
    \/ DaysPerCountry
    \/ CalculateTotalDistance
    \/ MoveLocation

SpecAnalytics == InitAnalytics /\ [][NextAnalytics]_vars

(***************************************************************************)
(* Vocabulary of the properties.  A step's operation and arguments are     *)
(* read from lastOp', the store before it from data, after it from data'.  *)
(***************************************************************************)
\* the number of items of d whose key is k
Count(d, k) == Cardinality({i \in 1..Len(d) : d[i].key = k})

\* d without the items of key k, the others in their order
IsNot(k, it) == it.key # k
Without(d, k) == SelectSeq(d, LAMBDA it : IsNot(k, it))

\* the 1-based place of the only item of key k
PlaceOf(d, k) == CHOOSE i \in 1..Len(d) : d[i].key = k

Did(o, op, outcome) == o.op = op /\ o.outcome = outcome

\* C1: every name present in the store appears exactly once in the
\* ordered listing, in every state reachable from the empty store
C1_UniqueNames ==
    \A i, j \in 1..Len(data) : data[i].key = data[j].key => i = j

\* a full store in which the last operation added a name that was present
C1_Witness ==
    /\ Len(data) = NumNames
    /\ Did(lastOp, "add_location", "added")
    /\ lastOp.had

\* C2 as stated: an insert of a name that is present, with coordinates
\* resolved, leaves two entries of that name and a sequence longer by one
C2_Original ==
    [][(Did(lastOp', "add_location", "added") /\ lastOp'.had)
          => /\ Len(data') = Len(data) + 1
             /\ Count(data', lastOp'.name) = 2]_vars

\* C2 amended: an insert of a name that is present, with coordinates
\* resolved, creates no second entry: the name still occurs exactly once
\* and the sequence keeps its length
C2_Amended ==
    [][(Did(lastOp', "add_location", "added") /\ lastOp'.had)
          => /\ Len(data') = Len(data)
             /\ Count(data', lastOp'.name) = 1]_vars

\* a name that was present has been inserted after another entry
C2_Witness ==
    /\ Did(lastOp, "add_location", "added")
    /\ lastOp.had
    /\ lastOp.pos = "after"
    /\ Has(data, lastOp.after)
    /\ lastOp.after # lastOp.name

\* the tuple slot each field update targets
FieldSlot(op) ==
    CASE op = "change_days" -> 4
      [] op = "change_transport" -> 5
      [] OTHER -> 1

FieldUpdates == {"change_days", "change_transport", "change_country"}

\* C3: a field update of a name that is present completes, and afterwards
\* exactly the targeted field of that waypoint has the new value; its other
\* four fields, its place and every other waypoint are unchanged
C3_FieldUpdate ==
    [][(lastOp'.op \in FieldUpdates /\ lastOp'.had)
          => /\ lastOp'.outcome = "updated"
             /\ Len(data') = Len(data)
             /\ \A i \in 1..Len(data) :
                   /\ data'[i].key = data[i].key
                   /\ data'[i].value =
                        IF data[i].key = lastOp'.name
                        THEN [data[i].value EXCEPT ![FieldSlot(lastOp'.op)] = lastOp'.new[1]]
                        ELSE data[i].value]_vars

\* C4: a rename of a name that is present to a name no other entry has
\* changes only the key: every entry keeps its index and its values
C4_RenameInPlace ==
    [][(lastOp'.op = "change_location_name" /\ lastOp'.had
            /\ (lastOp'.new[1] = lastOp'.name \/ ~Has(data, lastOp'.new[1])))
          => /\ Len(data') = Len(data)
             /\ \A i \in 1..Len(data) :
                   /\ data'[i].value = data[i].value
                   /\ data'[i].key = IF data[i].key = lastOp'.name
                                     THEN lastOp'.new[1]
                                     ELSE data[i].key]_vars

\* C5: no operation ends in an unhandled exception, and an operation that
\* reports a failure (absent name, failed resolution) leaves the in-memory
\* sequence as it was
C5_NoUnhandledException ==
    [][/\ lastOp'.outcome \notin Exceptions
       /\ lastOp'.outcome \in {"not_found", "skipped"} => data' = data]_vars

\* C6: when the geocoder answers an insert's lookup with no result or with
\* a timeout, the in-memory sequence is the one before the call and
\* save_data is not called (the snapshot is untouched)
C6_FailedResolutionAborts ==
    [][(lastOp'.op = "add_location" /\ lastOp'.out \in {"none", "timeout"})
          => /\ data' = data
             /\ disk' = disk
             /\ lastOp'.save = "none"]_vars

\* an insert into a non-empty store whose lookup timed out
C6_Witness ==
    /\ lastOp.op = "add_location"
    /\ lastOp.out = "timeout"
    /\ ~lastOp.had
    /\ Len(data) = 2

\* C7: an insert of a name that is not present, with coordinates resolved,
\* adds the new waypoint at exactly one place: first for "start", last for
\* "end", right after after_place for "after" with after_place present;
\* the waypoints that were there keep their order and values
C7_InsertFresh ==
    [][(Did(lastOp', "add_location", "added") /\ ~lastOp'.had
            /\ (lastOp'.pos = "after" => Has(data, lastOp'.after)))
          => LET k == CASE lastOp'.pos = "start" -> 1
                        [] lastOp'.pos = "end" -> Len(data) + 1
                        [] OTHER -> PlaceOf(data, lastOp'.after) + 1
             IN  /\ Len(data') = Len(data) + 1
                 /\ Count(data', lastOp'.name) = 1
                 /\ data'[k] = Item(lastOp'.name, lastOp'.new)
                 /\ Without(data', lastOp'.name) = data]_vars

\* a new name has been inserted between two entries, after the first one
C7_Witness ==
    /\ Did(lastOp, "add_location", "added")
    /\ ~lastOp.had
    /\ lastOp.pos = "after"
    /\ Len(data) = 3
    /\ data[1].key = lastOp.after
    /\ data[2].key = lastOp.name

\* C8: a move of a name that is present yields a permutation of the
\* sequence in which the name occurs once, with its values, first for
\* "start", last for "end", right after after_place for "after" with
\* after_place present and not the name itself; the other waypoints keep
\* their order and values
C8_Move ==
    [][(lastOp'.op = "move_location" /\ lastOp'.had)
          => /\ lastOp'.outcome = "moved"
             /\ Len(data') = Len(data)
             /\ Count(data', lastOp'.name) = 1
             /\ data'[PlaceOf(data', lastOp'.name)]
                    = data[PlaceOf(data, lastOp'.name)]
             /\ Without(data', lastOp'.name) = Without(data, lastOp'.name)
             /\ lastOp'.pos = "start" => PlaceOf(data', lastOp'.name) = 1
             /\ lastOp'.pos = "end" => PlaceOf(data', lastOp'.name) = Len(data)
             /\ (lastOp'.pos = "after" /\ lastOp'.after # lastOp'.name
                    /\ Has(data, lastOp'.after))
                  => PlaceOf(data', lastOp'.name)
                         = PlaceOf(data', lastOp'.after) + 1]_vars

\* a name has been moved right after the first of three entries
C8_Witness ==
    /\ Did(lastOp, "move_location", "moved")
    /\ lastOp.pos = "after"
    /\ Len(data) = 3
    /\ data[1].key = lastOp.after
    /\ data[2].key = lastOp.name

\* C9: with position "after" and an after_place that is not in the
\* sequence (for a move: not in it once the name is taken out, so also
\* after_place = name), an insert of a new name and a move of a present
\* name both put the waypoint last and do not fail
C9_AfterAbsentFallsBackToEnd ==
    [][/\ (Did(lastOp', "add_location", "added") /\ ~lastOp'.had
              /\ lastOp'.pos = "after" /\ ~Has(data, lastOp'.after))
          => /\ Len(data') = Len(data) + 1
             /\ data'[Len(data')] = Item(lastOp'.name, lastOp'.new)
             /\ Without(data', lastOp'.name) = data
       /\ (lastOp'.op = "move_location" /\ lastOp'.had /\ lastOp'.pos = "after"
              /\ (lastOp'.after = lastOp'.name \/ ~Has(data, lastOp'.after)))
          => /\ lastOp'.outcome = "moved"
             /\ Len(data') = Len(data)
             /\ data'[Len(data')] = data[PlaceOf(data, lastOp'.name)]
             /\ Without(data', lastOp'.name) = Without(data, lastOp'.name)]_vars

\* a new name has been inserted into a store of two "after" a name that
\* is not in it
C9_Witness ==
    /\ Did(lastOp, "add_location", "added")
    /\ ~lastOp.had
    /\ lastOp.pos = "after"
    /\ lastOp.after # lastOp.name
    /\ ~Has(data, lastOp.after)
    /\ Len(data) = 3
    /\ data[3].key = lastOp.name

NamedOps ==
    {"remove_location", "move_location", "change_days", "change_transport",
     "change_country", "change_location_name"}

\* C10: remove, move, the three field updates and rename, called with a
\* name that is not present, report not-found, leave the in-memory
\* sequence as it was and do not write the snapshot; a remove of a present
\* name deletes exactly that entry and keeps the rest in order
C10_NotFoundAndRemove ==
    [][/\ (lastOp'.op \in NamedOps /\ ~lastOp'.had)
          => /\ lastOp'.outcome = "not_found"
             /\ data' = data
             /\ disk' = disk
             /\ lastOp'.save = "none"
       /\ (lastOp'.op = "remove_location" /\ lastOp'.had)
          => /\ lastOp'.outcome = "removed"
             /\ Len(data') = Len(data) - 1
             /\ data' = Without(data, lastOp'.name)]_vars

\* the middle one of three entries has been removed
C10_Witness ==
    /\ Did(lastOp, "remove_location", "removed")
    /\ Len(data) = 2
    /\ \E c \in Names : data[1].key # c /\ data[2].key # c /\ lastOp.name = c

\* the outcomes of a mutating operation that took effect
Effective == {"added", "removed", "moved", "cleared", "updated", "renamed"}

\* the snapshot file is readable and holds exactly the items of d, in order
SnapshotHolds(snapshot, d) ==
    /\ snapshot.state = "valid"
    /\ Len(snapshot.content) = Len(d)
    /\ \A i \in 1..Len(d) : snapshot.content[i] = <<d[i].key, d[i].value>>

\* C11: after a mutating operation that takes effect and whose snapshot
\* write succeeds, the snapshot on disk equals the in-memory sequence at
\* the return; clear leaves both empty
C11_SnapshotFollowsMemory ==
    [][(lastOp'.outcome \in Effective /\ lastOp'.save = "saved")
          => /\ SnapshotHolds(disk', data')
             /\ lastOp'.op = "clear_data"
                  => data' = <<>> /\ disk'.content = <<>>]_vars

\* a move in a store of two was written to the snapshot
C11_Witness ==
    /\ Did(lastOp, "move_location", "moved")
    /\ lastOp.save = "saved"
    /\ Len(data) = 2
    /\ data[1].key = lastOp.name

\* C12: a store constructed on the snapshot path right after a save holds
\* the sequence that was saved: same names, same order, same values
C12_RoundTrip ==
    [][(lastOp'.op = "__init__" /\ lastOp.save = "saved")
          => /\ lastOp'.outcome = "loaded"
             /\ data' = data]_vars

\* a store of three different waypoints has been loaded from its snapshot
C12_Witness ==
    /\ Did(lastOp, "__init__", "loaded")
    /\ Len(data) = 3
    /\ data[1].value # data[2].value

\* C13: a rename of a present name to the name of a different present
\* entry overwrites that entry: old is gone, exactly one entry is called
\* new, it has the values old had, and the sequence is shorter by one
C13_RenameCollision ==
    [][(lastOp'.op = "change_location_name" /\ lastOp'.had
            /\ lastOp'.new[1] # lastOp'.name /\ Has(data, lastOp'.new[1]))
          => /\ lastOp'.outcome = "renamed"
             /\ ~Has(data', lastOp'.name)
             /\ Count(data', lastOp'.new[1]) = 1
             /\ data'[PlaceOf(data', lastOp'.new[1])].value
                    = data[PlaceOf(data, lastOp'.name)].value
             /\ Len(data') = Len(data) - 1]_vars

\* a rename has left the new name in front of another entry: it took the
\* place of an entry that had that name (a name that was free goes last)
C13_Witness ==
    /\ Did(lastOp, "change_location_name", "renamed")
    /\ lastOp.new[1] # lastOp.name
    /\ Len(data) = 2
    /\ data[1].key = lastOp.new[1]

\* a number of days no waypoint of the model exceeds
DaysCap == MaxDays + MaxDaysA

\* the waypoints of d that are in country c and last k days
Stays(d, c, k) == {i \in 1..Len(d) : d[i].value[1] = c /\ d[i].value[4] = k}

\* the days spent in country c: k days for each waypoint of c lasting k days
RECURSIVE DaysUpTo(_, _, _)
DaysUpTo(d, c, k) ==
    IF k = 0 THEN 0 ELSE k * Cardinality(Stays(d, c, k)) + DaysUpTo(d, c, k - 1)

DaysIn(d, c) == DaysUpTo(d, c, DaysCap)

CountriesOf(d) == {d[i].value[1] : i \in 1..Len(d)}

\* the place of the first waypoint of country c in d
FirstSeen(d, c) ==
    CHOOSE i \in 1..Len(d) :
        d[i].value[1] = c /\ \A j \in 1..(i - 1) : d[j].value[1] # c

\* m has one item for each country of d, with the days spent there
TotalsOf(m, d) ==
    /\ {m[i].key : i \in 1..Len(m)} = CountriesOf(d)
    /\ Len(m) = Cardinality(CountriesOf(d))
    /\ \A i \in 1..Len(m) : m[i].value = DaysIn(d, m[i].key)

\* m runs from the largest total to the smallest, countries with the same
\* total in the order they are first met in d
DescendingStable(m, d) ==
    \A i, j \in 1..Len(m) :
        i < j => \/ m[i].value > m[j].value
                 \/ /\ m[i].value = m[j].value
                    /\ FirstSeen(d, m[i].key) < FirstSeen(d, m[j].key)

\* C14 as stated: days_per_country yields the sum of the days for each
\* country, and its result is enumerated from the largest total down, ties
\* in the order the countries are first met
C14_Original ==
    [][lastOp'.op = "days_per_country"
          => /\ TotalsOf(lastOp'.out.returned, data)
             /\ DescendingStable(lastOp'.out.returned, data)]_vars

\* C14 amended: the mapping days_per_country returns has the sum of the
\* days for each country and is enumerated in the order the countries are
\* first met in the sequence; the listing it prints has the same totals
\* from the largest down, ties in the order the countries are first met
C14_Amended ==
    [][lastOp'.op = "days_per_country"
          => /\ TotalsOf(lastOp'.out.returned, data)
             /\ \A i, j \in 1..Len(lastOp'.out.returned) :
                   i < j => FirstSeen(data, lastOp'.out.returned[i].key)
                                < FirstSeen(data, lastOp'.out.returned[j].key)
             /\ TotalsOf(lastOp'.out.printed, data)
             /\ DescendingStable(lastOp'.out.printed, data)]_vars

\* A(X, 2), B(Y, 3), C(X, 1): X and Y both total 3 and X is listed first
C14_Witness ==
    /\ lastOp.op = "days_per_country"
    /\ Len(data) = 3
    /\ data[1].value[1] = "X" /\ data[1].value[4] = 2
    /\ data[2].value[1] = "Y" /\ data[2].value[4] = 3
    /\ data[3].value[1] = "X" /\ data[3].value[4] = 1
    /\ lastOp.out.printed = <<Item("X", 3), Item("Y", 3)>>

\* the days of all waypoints: k days for each waypoint lasting k days
RECURSIVE AllDaysUpTo(_, _)
AllDaysUpTo(d, k) ==
    IF k = 0 THEN 0
    ELSE k * Cardinality({i \in 1..Len(d) : d[i].value[4] = k}) + AllDaysUpTo(d, k - 1)

\* C15: total_days is the sum of the days of all waypoints, and no move,
\* whatever its position argument, changes it
C15_TotalDays ==
    [][/\ lastOp'.op = "total_days" => lastOp'.out = AllDaysUpTo(data, DaysCap)
       /\ lastOp'.op = "move_location" => total_days(data') = total_days(data)]_vars

\* the total of three waypoints with different days has been returned
C15_Witness ==
    /\ lastOp.op = "total_days"
    /\ Len(data) = 3
    /\ data[1].value[4] # data[2].value[4]
    /\ data[2].value[4] # data[3].value[4]
    /\ lastOp.out >= 4

\* the distance between the waypoints at places i and i + 1 of d
Leg(d, i) ==
    geodesic_km(<<d[i].value[2], d[i].value[3]>>,
                <<d[i + 1].value[2], d[i + 1].value[3]>>)

\* the legs from place 1 to place n + 1, added from the last one back
RECURSIVE LegsUpTo(_, _)
LegsUpTo(d, n) == IF n < 1 THEN 0 ELSE Leg(d, n) + LegsUpTo(d, n - 1)

\* C16: calculate_total_distance returns zero for fewer than two
\* waypoints, and otherwise the sum of the distances of the pairs that are
\* adjacent in the sequence, each once
C16_TotalDistance ==
    [][lastOp'.op = "calculate_total_distance"
          => lastOp'.out = IF Len(data) < 2 THEN 0
                           ELSE LegsUpTo(data, Len(data) - 1)]_vars

\* three waypoints, the first two at one point and the third one degree
\* away: only the last leg counts
C16_Witness ==
    /\ lastOp.op = "calculate_total_distance"
    /\ Len(data) = 3
    /\ data[1].value[3] = data[2].value[3]
    /\ data[2].value[3] # data[3].value[3]
    /\ lastOp.out = 111

\* C17: a store constructed on the snapshot path starts empty when the
\* file cannot be deserialized and when there is no file, starts with the
\* snapshot's content when the file is valid, and no exception escapes
C17_Construction ==
    [][lastOp'.op = "__init__"
          => /\ lastOp'.outcome \notin Exceptions
             /\ disk.state \in {"corrupt", "missing"} => data' = <<>>
             /\ disk.state = "valid" => SnapshotHolds(disk, data')
             /\ disk' = disk]_vars

\* a store has been constructed on a snapshot that cannot be read
C17_Witness ==
    /\ Did(lastOp, "__init__", "load_error")
    /\ disk.state = "corrupt"
    /\ data = <<>>

\* the in-memory sequence after the step is the one the operation makes
Applied(o, d, e) ==
    CASE o.op = "remove_location" -> e = Without(d, o.name)
      [] o.op = "clear_data" -> e = <<>>
      [] o.op = "add_location" ->
            /\ Count(e, o.name) = 1
            /\ Len(e) = Len(d) + (IF o.had THEN 0 ELSE 1)
      [] o.op = "move_location" ->
            /\ Count(e, o.name) = 1
            /\ Without(e, o.name) = Without(d, o.name)
            /\ o.pos = "start" => e[1].key = o.name
            /\ o.pos = "end" => e[Len(e)].key = o.name
      [] o.op = "change_transport" -> e[PlaceOf(e, o.name)].value[5] = o.new[1]
      [] o.op = "change_country" -> e[PlaceOf(e, o.name)].value[1] = o.new[1]
      [] o.op = "change_location_name" ->
            /\ Count(e, o.new[1]) = 1
            /\ e[PlaceOf(e, o.new[1])].value = d[PlaceOf(d, o.name)].value
            /\ o.new[1] # o.name => ~Has(e, o.name)
      [] OTHER -> e = d

FailedWrites == {"open_failed", "dump_failed"}

\* C18 as stated: when the snapshot write of a mutating operation fails,
\* the operation returns normally, the in-memory sequence holds the new
\* state and the snapshot keeps its previous content
C18_Original ==
    [][lastOp'.save \in FailedWrites
          => /\ lastOp'.outcome \in Effective \cup {"returned"}
             /\ Applied(lastOp', data, data')
             /\ disk' = disk]_vars

\* C18 amended: when the snapshot write of a mutating operation fails, the
\* operation returns normally and the in-memory sequence holds the new
\* state; the snapshot keeps its previous content when the file could not
\* be opened, and is left unreadable when the write failed after the file
\* was opened (and truncated)
C18_Amended ==
    [][lastOp'.save \in FailedWrites
          => /\ lastOp'.outcome \in Effective \cup {"returned"}
             /\ Applied(lastOp', data, data')
             /\ lastOp'.save = "open_failed" => disk' = disk
             /\ lastOp'.save = "dump_failed" => disk'.state = "corrupt"]_vars

\* a waypoint has been removed from memory while the snapshot, which
\* could not be opened, still holds both waypoints
C18_Witness ==
    /\ Did(lastOp, "remove_location", "removed")
    /\ lastOp.save = "open_failed"
    /\ Len(data) = 1
    /\ disk.state = "valid"
    /\ Len(disk.content) = 2

\* C19: an export writes the header row followed by exactly one row per
\* waypoint, in the order of the sequence, each row being the name followed
\* by the five fields; the in-memory sequence and the snapshot file are
\* unchanged by it
C19_Export ==
    [][lastOp'.op = "export_to_csv"
          => /\ data' = data
             /\ disk' = disk
             /\ lastOp'.outcome = "exported"
                   => /\ Len(lastOp'.out) = Len(data) + 1
                      /\ lastOp'.out[1] = CsvHeader
                      /\ \A i \in 1..Len(data) :
                            lastOp'.out[i + 1] = <<data[i].key>> \o data[i].value]_vars

\* three waypoints have been exported as a header and three rows
C19_Witness ==
    /\ Did(lastOp, "export_to_csv", "exported")
    /\ Len(data) = 3
    /\ Len(lastOp.out) = 4
    /\ disk.state = "valid"

\* an insert of a present name, coordinates resolved
Reinsert(o) == Did(o, "add_location", "added") /\ o.had

\* the entry of name k is at the same index in e as in d
SameIndex(d, e, k) == Has(e, k) /\ PlaceOf(e, k) = PlaceOf(d, k)

\* the branches of a reinsert the claim and its amendment agree on
ReinsertCommon(o, d, e) ==
    /\ Len(e) = Len(d)
    /\ o.pos = "start"
          => /\ e[1].key = o.name
             /\ e[1].value = Get(d, o.name)
    /\ (o.pos = "end" \/ (o.pos = "after" /\ ~Has(d, o.after)))
          => /\ SameIndex(d, e, o.name)
             /\ Get(e, o.name) = o.new
    /\ (o.pos = "after" /\ Has(d, o.after)
          /\ PlaceOf(d, o.name) <= PlaceOf(d, o.after))
          => /\ SameIndex(d, e, o.name)
             /\ Get(e, o.name) = o.new

\* the reinsert is After(afterName) with the entry behind afterName
ReinsertBehind(o, d) ==
    /\ o.pos = "after"
    /\ Has(d, o.after)
    /\ PlaceOf(d, o.name) > PlaceOf(d, o.after)

\* C20 as stated: an insert of a present name never changes the length;
\* Start puts the entry at index 0 with its old values; End, and After of
\* an absent name, keep the index and take the new values; After of a
\* present name takes the new values at the same index when the entry is
\* afterName or precedes it, and otherwise keeps old values and index
C20_Original ==
    [][Reinsert(lastOp')
          => /\ ReinsertCommon(lastOp', data, data')
             /\ ReinsertBehind(lastOp', data)
                   => /\ SameIndex(data, data', lastOp'.name)
                      /\ Get(data', lastOp'.name) = Get(data, lastOp'.name)]_vars

\* C20 amended: as stated, except that in the last case (After of a
\* present name that the entry comes behind) the entry keeps its old
\* values but is placed immediately behind afterName, the entries that
\* were between them moving one place back
C20_Amended ==
    [][Reinsert(lastOp')
          => /\ ReinsertCommon(lastOp', data, data')
             /\ ReinsertBehind(lastOp', data)
                   => /\ PlaceOf(data', lastOp'.name)
                            = PlaceOf(data', lastOp'.after) + 1
                      /\ Get(data', lastOp'.name) = Get(data, lastOp'.name)
                      /\ Without(data', lastOp'.name)
                            = Without(data, lastOp'.name)]_vars

\* an entry behind the first of three has been reinserted after the first
\* with different values: it is second and carries its old values, in
\* memory and in the snapshot
C20_Witness ==
    /\ Reinsert(lastOp)
    /\ lastOp.pos = "after"
    /\ Len(data) = 3
    /\ data[1].key = lastOp.after
    /\ data[2].key = lastOp.name
    /\ data[2].value # lastOp.new
    /\ disk.state = "valid"
    /\ Len(disk.content) = 3
    /\ disk.content[2] = <<lastOp.name, data[2].value>>

====
